---- MODULE Spec2Model ----
(***************************************************************************)
(* State-machine model of the EarthVertex globe driver                     *)
(* (src/src/utils/test-runner.js): initialization and texture loading,    *)
(* the LOD manager, the performance monitor and the animate frame loop.    *)
(*                                                                         *)
(* JavaScript runs every handler to completion, so each action below is    *)
(* one whole task: a timer callback, an input event handler, a texture     *)
(* loader callback together with the promise continuation it releases, or  *)
(* one animation frame.                                                    *)
(*                                                                         *)
(* Representation:                                                         *)
(*   - times are integer milliseconds (performance.now(), rAF timestamps); *)
(*   - camera distances are integer world units;                           *)
(*   - shader uniforms that are floats are fixed-point integers: terrain   *)
(*     diversity in units of 1/DiversityOne, bulge strength and pointer    *)
(*     coordinates in units of 1/StrengthOne;                              *)
(*   - uTime is a pure accumulator that no modelled decision reads; it is  *)
(*     left out.  The group rotation advances by quarter turns.            *)
(***************************************************************************)
EXTENDS Integers, Sequences, FiniteSets, TLC

(***************************************************************************)
(* Bounds of the model (not program constants).                            *)
(***************************************************************************)
\* Camera distances explored by the orbit controls: 0..MaxDistance.
MaxDistance == 16
\* Frames per FPS window explored around the 45 fps threshold (SpecPerf).
MaxFrames == 46
\* Frames per FPS window on a slow machine (SpecCooldown).
MaxSlowFrames == 2
\* Frames of the first FPS window explored by Spec.
MaxWindowFrames == 4
\* Active horizon, in seconds, of SpecPerf and SpecCooldown.
MaxPerfSeconds == 1
MaxCooldownSeconds == 5
\* The terrain cache, scaled: entries at which set evicts (20000 in the
\* code) and the entries it evicts (1000 in the code).
maxCacheSize == 4
evictCount == 2
\* get calls explored.
MaxRequests == 1
\* Time explored by the pointer specification, in ms, and the frames it runs.
MaxPointerMs == 32
MaxPointerFrames == 3
\* Errors handled between two resets of the error handler.
MaxHandled == 6
\* The sliding window the error threshold is read with, in ms; the code has
\* no such constant.
ErrorWindowMs == 1000
\* Time explored by the error handler specification, in seconds.
MaxErrorSeconds == 1
\* Frames the shader specification runs.
MaxShaderFrames == 2

(***************************************************************************)
(* Program constants.                                                      *)
(***************************************************************************)
FPSWindowMs == 1000
FPSThreshold == 45
OptimizeCooldownMs == 3000
LODHysteresis == 50
DefaultLOD == 300
MaxCanvasWait == 50
totalTextures == 4
InitialCameraDistance == 14
FallbackResolution == 200
EnhancedGlobeResolution == 400
EnhancedGlobeDelayMs == 1000
MaxDeltaMs == 16
maxErrors == 5
RAYCAST_THROTTLE == 16
DebounceMs == 8
ErrorLogLimit == 50
RefreshThreshold == 10
bulgeRadius == 900

\* Fixed-point units.
DiversityOne == 1000 * 100
StrengthOne == 10 * 100

TextureNames == {"starTexture", "colorMap", "elevationMap", "alphaMap"}

VARIABLES
  now,                \* performance.now(), ms since the time origin
  pc,                 \* where init() is: "init", "canvasWait", "textures",
                      \* "rendering" (completed), "degraded" (fallback taken),
                      \* "rejected" (an error escaped init)
  domCanvas,          \* the page holds a canvas.webgl element
  canvas,             \* the canvas variable is set
  canvasWaitCount,    \* local to init: 0 once the wait loop is left
  renderer,           \* renderer is set
  controls,           \* controls is set
  texturePromise,     \* "none", "pending", "resolved", "rejected"
  texturesPending,    \* textures whose loader callback has not run yet
  loadedCount,
  hasError,
  settleCalls,        \* calls of resolve or reject made by loadTextures
  groupChildren,      \* the earth meshes added to group, in order
  earthMesh,          \* index into groupChildren, 0 for null
  controlsMaterial,   \* child whose material the keydown listener holds, 0: none
  lodManager,
  performanceMonitor,
  optimizeTimers,     \* deadlines of the pending isOptimizing reset timers
  enhancedGlobeTimer, \* the setupEnhancedGlobe timer is pending
  camDist,            \* camera.position.distanceTo(group.position)
  lastTime,
  rafPending,         \* animate callbacks handed to requestAnimationFrame
  bulgeStrength,
  targetBulgeStrength,
  mouse,
  targetMouse,
  lastFrame,          \* what the most recent animate call did (observation)
  terrainCache,       \* the Map of the terrain cache: its entries in
                      \* insertion order, each [key, data]
  cacheSize,
  cacheHitRate,       \* in thousandths
  totalRequests,
  errorHandler,       \* the ErrorHandler instance
  groupRotation,      \* group.rotation.y, in the model's rotation steps
  mouseMoveTimeout,   \* the debounce timer of the mousemove listener
  lastRaycastTime,
  isMouseOverEarth,
  raycastLog,         \* the raycasts executed: time and pointer position
                      \* (observation)
  lastPointerEvent,   \* the most recent pointer event dispatched, odd
                      \* flipping with every event (observation)
  shaderSamples       \* the last call of a shader function and, for the
                      \* noise, the call before it when it was the same
                      \* call (observation)

vars == << now, pc, domCanvas, canvas, canvasWaitCount, renderer, controls,
           texturePromise, texturesPending, loadedCount, hasError, settleCalls,
           groupChildren, earthMesh, controlsMaterial, lodManager,
           performanceMonitor, optimizeTimers, enhancedGlobeTimer, camDist,
           lastTime, rafPending, bulgeStrength, targetBulgeStrength, mouse,
           targetMouse, lastFrame, terrainCache, cacheSize, cacheHitRate,
           totalRequests, errorHandler, groupRotation, mouseMoveTimeout,
           lastRaycastTime, isMouseOverEarth, raycastLog, lastPointerEvent,
           shaderSamples >>

Abs(x) == IF x < 0 THEN -x ELSE x
Min(a, b) == IF a <= b THEN a ELSE b
\* Integer division truncating toward zero.
Quot(a, b) == IF a >= 0 THEN a \div b ELSE -((-a) \div b)

(***************************************************************************)
(* LODManager                                                              *)
(***************************************************************************)
lodLevels ==
  << [distance |-> 15, vertices |-> 100, label |-> "Far"],
     [distance |-> 10, vertices |-> 150, label |-> "Medium"],
     [distance |-> 7, vertices |-> 200, label |-> "Near"],
     [distance |-> 0, vertices |-> 300, label |-> "Close"] >>

LODManagerInit ==
  [currentLOD |-> 300, targetLOD |-> 300, needsGeometryUpdate |-> FALSE]

LevelMatches_Strict(cameraDistance, level) == cameraDistance > level.distance

\* The test of the scan loop: if (cameraDistance >= level.distance)
LevelMatches(cameraDistance, level) == cameraDistance >= level.distance

RECURSIVE ScanLevels(_, _)
ScanLevels(i, cameraDistance) ==
  IF i > Len(lodLevels) THEN DefaultLOD
  ELSE IF LevelMatches(cameraDistance, lodLevels[i]) THEN lodLevels[i].vertices
  ELSE ScanLevels(i + 1, cameraDistance)

calculateOptimalLOD(cameraDistance) == ScanLevels(1, cameraDistance)

\* The camera distances explored: the default one, the distance at and the one
\* just below each band boundary, and the largest.
Distances ==
  {d \in 0 .. MaxDistance :
     \/ d = InitialCameraDistance
     \/ d = MaxDistance
     \/ \E i \in 1 .. Len(lodLevels) :
          d = lodLevels[i].distance \/ d = lodLevels[i].distance - 1}

SignificantChange_Strict(target, current) == Abs(target - current) > LODHysteresis

\* if (Math.abs(this.targetLOD - this.currentLOD) >= 50)
SignificantChange(target, current) == Abs(target - current) >= LODHysteresis

\* LODManager.update, with distance = camera.position.distanceTo(earthPosition)
LODManager_update(lod, distance) ==
  LET target == calculateOptimalLOD(distance) IN
  IF SignificantChange(target, lod.currentLOD)
  THEN [currentLOD |-> target, targetLOD |-> target, needsGeometryUpdate |-> TRUE]
  ELSE [lod EXCEPT !.targetLOD = target]

\* LODManager.createGeometry: the resolution built, and the manager after it
LODManager_createGeometry(lod) ==
  [resolution |-> lod.currentLOD,
   lod |-> [lod EXCEPT !.needsGeometryUpdate = FALSE]]

(***************************************************************************)
(* Meshes and materials                                                    *)
(***************************************************************************)
\* The uniforms of the ShaderMaterial built by createEarthMesh.  Tenths for
\* uTerrainAnimation, uBrightness, uContrast, uSize, uDetailLevel; uLODLevel
\* is kept as its numerator over 300.
EnhancedUniforms ==
  [uTerrainDiversity |-> DiversityOne,
   uTerrainAnimation |-> 10,
   uBrightness |-> 15,
   uContrast |-> 14,
   uSize |-> 12,
   uDetailLevel |-> 10,
   uBulgeStrength |-> 0,
   uMouse |-> << 0, 0, 0 >>,
   uLODLevel |-> 300]

\* new THREE.Points(pointsGeometry, pointsMaterial) of createEarthMesh
EnhancedMesh(resolution) ==
  [material |-> [type |-> "ShaderMaterial", uniforms |-> EnhancedUniforms],
   geometry |-> resolution]

\* new THREE.Points(pointsGeometry, basicMaterial) of createBasicEarthMesh
BasicMesh ==
  [material |-> [type |-> "PointsMaterial"], geometry |-> FallbackResolution]

\* earthMesh && earthMesh.material && earthMesh.material.uniforms
HasUniforms(ch, em) == em # 0 /\ ch[em].material.type = "ShaderMaterial"

createBasicEarthMesh(ch) ==
  [ch |-> Append(ch, BasicMesh), em |-> Len(ch) + 1]

(***************************************************************************)
(* PerformanceMonitor                                                      *)
(***************************************************************************)
PerformanceMonitorInit ==
  [frameCount |-> 0, lastFPSUpdate |-> 0, currentFPS |-> 60,
   isOptimizing |-> FALSE]

\* uniforms.uTerrainDiversity.value *= 0.7
ReduceDiversity(v) == (v * 7) \div 10

triggerOptimization_NoFlag(pm, timers, ch, em, t) ==
  [pm |-> pm,
   ch |-> IF HasUniforms(ch, em)
          THEN [ch EXCEPT ![em].material.uniforms.uTerrainDiversity =
                            ReduceDiversity(@)]
          ELSE ch,
   timers |-> Append(timers, t + OptimizeCooldownMs)]

\* PerformanceMonitor.triggerOptimization at clock t
triggerOptimization(pm, timers, ch, em, t) ==
  [pm |-> [pm EXCEPT !.isOptimizing = TRUE],
   ch |-> IF HasUniforms(ch, em)
          THEN [ch EXCEPT ![em].material.uniforms.uTerrainDiversity =
                            ReduceDiversity(@)]
          ELSE ch,
   timers |-> Append(timers, t + OptimizeCooldownMs)]

BelowThreshold_Inclusive(fps) == fps <= FPSThreshold

\* this.currentFPS < 45
BelowThreshold(fps) == fps < FPSThreshold

WindowElapsed_Strict(t, lastFPSUpdate) == t - lastFPSUpdate > FPSWindowMs

\* now - this.lastFPSUpdate >= 1000
WindowElapsed(t, lastFPSUpdate) == t - lastFPSUpdate >= FPSWindowMs

\* PerformanceMonitor.update at clock t
PerformanceMonitor_update(pm, timers, ch, em, t) ==
  LET counted == pm.frameCount + 1 IN
  IF WindowElapsed(t, pm.lastFPSUpdate)
  THEN LET pm1 == [pm EXCEPT !.currentFPS = counted, !.frameCount = 0,
                             !.lastFPSUpdate = t] IN
       IF BelowThreshold(pm1.currentFPS) /\ ~pm1.isOptimizing
       THEN triggerOptimization(pm1, timers, ch, em, t)
       ELSE [pm |-> pm1, ch |-> ch, timers |-> timers]
  ELSE [pm |-> [pm EXCEPT !.frameCount = counted], ch |-> ch,
        timers |-> timers]

(***************************************************************************)
(* EnhancedTerrainCache.  The cache is scaled down: maxCacheSize entries   *)
(* (20000 in the code), of which a set that finds the counter at the bound *)
(* deletes the first evictCount (1000 in the code).                        *)
(***************************************************************************)
EnhancedTerrainCacheInit ==
  [terrainCache |-> << >>, cacheSize |-> 0, cacheHitRate |-> 0,
   totalRequests |-> 0]

\* generateKey: u and v in thousandths, terrainDiversity in its fixed-point
\* unit; Math.floor(u * 100), Math.floor(v * 100),
\* Math.floor(terrainDiversity * 10).
generateKey(u, v, terrainDiversity) ==
  << u \div 10, v \div 10, (terrainDiversity * 10) \div DiversityOne >>

\* The keys of the Map, in insertion order.
CacheKeys(entries) == [i \in 1 .. Len(entries) |-> entries[i].key]

\* Map.prototype.set: the value of a key already held is replaced in place,
\* a new key goes to the end.
MapSet(entries, key, data) ==
  IF \E i \in 1 .. Len(entries) : entries[i].key = key
  THEN [i \in 1 .. Len(entries) |->
          IF entries[i].key = key THEN [key |-> key, data |-> data]
          ELSE entries[i]]
  ELSE Append(entries, [key |-> key, data |-> data])

\* Map.prototype.get: the value held for the key, 0 (undefined) if none.
MapGet(entries, key) ==
  IF \E i \in 1 .. Len(entries) : entries[i].key = key
  THEN entries[CHOOSE i \in 1 .. Len(entries) : entries[i].key = key].data
  ELSE 0

EvictedKeys_None(entries) == 0

\* Array.from(this.terrainCache.keys()).slice(0, 1000): how many keys.
EvictedKeys(entries) == Min(evictCount, Len(entries))

BoundReached_Never(size) == FALSE

\* if (this.cacheSize >= this.maxCacheSize)
BoundReached(size) == size >= maxCacheSize

\* EnhancedTerrainCache.set
EnhancedTerrainCache_set(c, u, v, terrainDiversity, terrainData) ==
  LET evict == BoundReached(c.cacheSize)
      n == EvictedKeys(c.terrainCache)
      kept == IF evict
              THEN SubSeq(c.terrainCache, n + 1, Len(c.terrainCache))
              ELSE c.terrainCache
      size1 == IF evict THEN c.cacheSize - evictCount ELSE c.cacheSize
      key == generateKey(u, v, terrainDiversity)
  IN [c EXCEPT !.terrainCache = MapSet(kept, key, terrainData),
               !.cacheSize = size1 + 1]

\* EnhancedTerrainCache.get: the new state and the result (0: undefined)
EnhancedTerrainCache_get(c, u, v, terrainDiversity) ==
  LET key == generateKey(u, v, terrainDiversity)
      result == MapGet(c.terrainCache, key)
  IN [cache |-> [c EXCEPT !.totalRequests = @ + 1,
                          !.cacheHitRate =
                             IF result # 0 THEN ((@ * 9) \div 10) + 100
                             ELSE @],
      result |-> result]

\* EnhancedTerrainCache.clear
EnhancedTerrainCache_clear == EnhancedTerrainCacheInit

(***************************************************************************)
(* ErrorHandler (src/src/utils/ErrorHandler.js).  Date.now() is the clock. *)
(* window.performanceMonitor is never set by the program, so enterSafeMode *)
(* only raises the flag.                                                   *)
(***************************************************************************)
ErrorHandlerInit ==
  [errorCount |-> 0, errorLog |-> << >>, isSafeMode |-> FALSE,
   refreshSuggested |-> 0]

\* logError: the entry pushed, the oldest dropped beyond ErrorLogLimit
logError(h, context, t) ==
  LET log == Append(h.errorLog, [timestamp |-> t, context |-> context,
                                  count |-> h.errorCount])
  IN [h EXCEPT !.errorLog = IF Len(log) > ErrorLogLimit THEN Tail(log)
                            ELSE log]

enterSafeMode(h) == [h EXCEPT !.isSafeMode = TRUE]

\* attemptRecovery.  windowRenderer: window.renderer with scene and camera
\* is "absent", or its render call is "ok" or "throws".
attemptRecovery(h, context, windowRenderer) ==
  CASE context = "Globe Rendering" ->
         IF windowRenderer = "throws" THEN [h EXCEPT !.isSafeMode = TRUE]
         ELSE h
    [] context \in {"Chat Interface", "Texture Loading"} -> h
    [] OTHER ->
         IF h.errorCount > RefreshThreshold
         THEN [h EXCEPT !.refreshSuggested = @ + 1]
         ELSE h

TooManyErrors_Late(h, t) == h.errorCount > maxErrors + 1

\* if (this.errorCount > this.maxErrors)
TooManyErrors(h, t) == h.errorCount > maxErrors

\* ErrorHandler.handle at clock t
ErrorHandler_handle(h, context, windowRenderer, t) ==
  LET h1 == logError([h EXCEPT !.errorCount = @ + 1], context, t)
      h2 == IF TooManyErrors(h1, t) THEN enterSafeMode(h1) ELSE h1
  IN attemptRecovery(h2, context, windowRenderer)

exitSafeMode(h) == [h EXCEPT !.isSafeMode = FALSE, !.errorCount = 0]

ErrorHandler_reset(h) ==
  [h EXCEPT !.errorCount = 0, !.errorLog = << >>, !.isSafeMode = FALSE]

(***************************************************************************)
(* Interpolation                                                           *)
(***************************************************************************)
SmoothFactor_Over(speed, deltaMs) == 1000 + speed * deltaMs

\* Math.min(1.0, 1.0 - Math.exp(-speed * deltaTime)) in thousandths, for
\* deltaTime in ms; the exponential by its series to the third order.
SmoothFactor(speed, deltaMs) ==
  LET x == speed * deltaMs IN
  Min(1000, (x - ((x * x) \div 2000)) + ((x * x * x) \div 6000000))

lerp(start, end, factor) == start + Quot((end - start) * factor, 1000)

smoothInterpolation(current, target, deltaMs, speed) ==
  lerp(current, target, SmoothFactor(speed, deltaMs))

(***************************************************************************)
(* animate: one frame up to (not including) controls.update() and          *)
(* renderer.render().  s holds the state the frame reads; currentTime is   *)
(* the timestamp argument and s.clock what performance.now() returns.      *)
(***************************************************************************)
\* group.rotation.y += 0.0005: the rotation of the group is kept in steps,
\* one per frame, that the model takes to be quarter turns about the y axis,
\* so that worldToLocal stays exact on integer coordinates; the small turn
\* about x is left out.
RotateGroup(rot) == (rot + 1) % 4

FramesRequested_Twice(renderOk) == IF renderOk THEN 2 ELSE 0

\* The calls of window.requestAnimationFrame(animate) one animate call
\* makes: the last statement, reached when nothing before it threw.
FramesRequested(renderOk) == IF renderOk THEN 1 ELSE 0

NeedsRegeneration_Always(lod, em) == em # 0

NeedsRegeneration_Never(lod, em) == FALSE

\* if (lodManager.needsGeometryUpdate && earthMesh)
NeedsRegeneration(lod, em) == lod.needsGeometryUpdate /\ em # 0

animate(currentTime, s) ==
  LET deltaMs == Min(currentTime - s.lt, MaxDeltaMs)
      p == PerformanceMonitor_update(s.pm, s.timers, s.ch, s.em, s.clock)
      lod1 == LODManager_update(s.lod, s.dist)
      regen == NeedsRegeneration(lod1, s.em)
      geo == LODManager_createGeometry(lod1)
      lod2 == IF regen THEN geo.lod ELSE lod1
      ch1 == IF regen THEN [p.ch EXCEPT ![s.em].geometry = geo.resolution]
             ELSE p.ch
      shaded == HasUniforms(ch1, s.em)
      ms1 == IF shaded
             THEN << smoothInterpolation(s.ms[1], s.tms[1], deltaMs, 10),
                     smoothInterpolation(s.ms[2], s.tms[2], deltaMs, 10),
                     smoothInterpolation(s.ms[3], s.tms[3], deltaMs, 10) >>
             ELSE s.ms
      bs1 == IF shaded
             THEN smoothInterpolation(s.bs, s.tbs, deltaMs, 8)
             ELSE s.bs
      ch2 == IF shaded
             THEN [ch1 EXCEPT ![s.em].material.uniforms =
                     [@ EXCEPT !.uMouse = ms1, !.uBulgeStrength = bs1,
                               !.uLODLevel = lod2.currentLOD]]
             ELSE ch1
  IN [pm |-> p.pm, timers |-> p.timers, ch |-> ch2, lod |-> lod2,
      lt |-> currentTime, bs |-> bs1, ms |-> ms1,
      rot |-> RotateGroup(s.rot),
      frame |-> [prevLOD |-> s.lod.currentLOD,
                 committed |-> lod1.currentLOD # s.lod.currentLOD,
                 geometriesCreated |-> IF regen THEN 1 ELSE 0,
                 geometriesDisposed |-> IF regen THEN 1 ELSE 0]]

(***************************************************************************)
(* Pointer tracking                                                        *)
(***************************************************************************)
\* No debounce timer is pending.
NoTimeout == [pending |-> FALSE, due |-> 0, position |-> "none"]

\* Where the pointer can be: over the centre of the globe, over its edge,
\* or over the sky beside it.
PointerPositions == {"centre", "edge", "sky"}

\* raycaster.intersectObject(earthMesh) for the ray through the pointer: the
\* first intersection point in world space (thousandths, on the sphere of
\* radius 2.75), << >> when the ray misses the globe.
Raycast(position) ==
  CASE position = "centre" -> << 0, 0, 2750 >>
    [] position = "edge" -> << 1650, 0, 2200 >>
    [] OTHER -> << >>

RECURSIVE worldToLocal(_, _)
worldToLocal_Identity(point, rot) == point

\* group.worldToLocal(localPoint): the inverse of the group's rotation, one
\* quarter turn about y back for each step.
worldToLocal(point, rot) ==
  IF rot = 0 THEN point
  ELSE worldToLocal(<< -point[3], point[2], point[1] >>, rot - 1)

Throttled_Never(t, last) == FALSE

\* if (currentTime - lastRaycastTime < RAYCAST_THROTTLE) return;
Throttled(t, last) == t - last < RAYCAST_THROTTLE

\* targetBulgeStrength = 1.0 on a hit, 0.0 otherwise
HoverTarget(hit) == IF hit # << >> THEN StrengthOne ELSE 0

\* updateHoverPosition at clock t for the pointer at position.  p holds the
\* state it reads and writes: lrt (lastRaycastTime), tms (targetMouse), tbs
\* (targetBulgeStrength), over (isMouseOverEarth), ch and em (the meshes),
\* rot (the group rotation), log (the raycasts executed).
updateHoverPosition(p, position, t) ==
  IF Throttled(t, p.lrt) THEN p
  ELSE IF p.em = 0 THEN [p EXCEPT !.lrt = t]
  ELSE LET hit == Raycast(position)
           shaded == HasUniforms(p.ch, p.em)
       IN [p EXCEPT
             !.lrt = t,
             !.log = Append(@, [at |-> t, position |-> position]),
             !.tms = IF hit # << >> THEN worldToLocal(hit, p.rot) ELSE @,
             !.tbs = HoverTarget(hit),
             !.over = hit # << >>,
             !.ch = IF shaded
                    THEN [@ EXCEPT ![p.em].material.uniforms.uTerrainDiversity
                                     = IF hit # << >>
                                       THEN (DiversityOne * 3) \div 2
                                       ELSE DiversityOne]
                    ELSE @]

(***************************************************************************)
(* The shaders (src/core/shaders/fragment.glsl, enhancedFragment.glsl and  *)
(* the vertex shader part_000).  Floats are fixed-point integers in units  *)
(* of 1/StrengthOne; positions lie in the octant x, y, z >= 0.             *)
(***************************************************************************)
\* fract(sin(n) * 43758.5453) for the lattice values n = 0 .. 255, to three
\* decimals.
SinHashTable ==
  << 0, 546, 532, 206, 423, 868, 184, 777, 877, 705, 427, 883, 349, 898, 536, 649,
     769, 644, 890, 408, 156, 833, 679, 626, 208, 479, 448, 619, 443, 346, 173, 900,
     629, 688, 888, 349, 200, 707, 657, 284,  67, 902, 350, 747, 610, 300, 946, 380,
     293, 171, 858, 253, 388, 108, 204, 167, 686, 935, 662, 728, 930,  91, 528, 241,
       1, 820, 160, 690, 990, 183, 330, 768, 941, 443, 432, 239,  46, 548, 949, 275,
     878,  17, 435, 220, 341, 187, 801, 446, 978, 386, 993, 859, 698, 552, 129, 538,
     368,  82, 643, 162, 176, 990, 173,  76, 271, 787, 301, 780, 229, 468,   4, 486,
      87, 461, 599, 874, 958, 821, 201, 896, 700, 701, 962, 292, 185, 965, 918, 876,
     561, 885, 916, 416, 860, 677, 781, 885, 792, 938, 764, 453, 861, 850, 945, 859,
     609, 847,  41, 880,  22, 792,  47, 784, 748, 916, 456, 138, 387,  71, 104,  16,
     730, 657, 436, 646, 392, 157, 135, 615, 147, 361, 875, 195, 893, 237, 786, 515,
      14,  52, 420, 699, 726, 248, 527, 823, 911, 638, 308, 246, 775, 290, 244, 332,
     413, 163, 595,  17, 468, 306, 756, 765, 780, 772, 696, 274, 492, 125,  88, 264,
     926, 930, 681, 460, 783,  12,  79, 122, 506, 480, 497, 600, 199, 393,  24, 543,
     645, 401, 179, 475, 570, 673, 926, 308, 463, 105, 765, 626, 672, 952, 776, 239,
     304, 782, 148, 485, 149, 322, 229, 734, 483, 396, 105, 520, 108,  39, 814,  38 >>

SinHash(n) == SinHashTable[n + 1]

\* GLSL floor and fract of a fixed-point number.
Floor(x) == x \div StrengthOne
Fract(x) == x % StrengthOne

\* GLSL mix(a, b, t) = a * (1 - t) + b * t.
mix(a, b, t) == a + ((b - a) * t) \div StrengthOne

\* pos * k for a whole number k.
Scale(pos, k) == << pos[1] * k, pos[2] * k, pos[3] * k >>

\* dot(floor(i + corner), vec3(1.0, 57.0, 21.0))
LatticeValue(i, corner) ==
  (i[1] + corner[1]) + 57 * (i[2] + corner[2]) + 21 * (i[3] + corner[3])

\* f * f * (3.0 - 2.0 * f)
Smooth(f) == (f * f * (3 * StrengthOne - 2 * f)) \div (StrengthOne * StrengthOne)

perlinNoise(pos) ==
  LET i == << Floor(pos[1]), Floor(pos[2]), Floor(pos[3]) >>
      u == << Smooth(Fract(pos[1])), Smooth(Fract(pos[2])),
              Smooth(Fract(pos[3])) >>
      a == SinHash(LatticeValue(i, << 0, 0, 0 >>))
      b == SinHash(LatticeValue(i, << 1, 0, 0 >>))
      c == SinHash(LatticeValue(i, << 0, 1, 0 >>))
      d == SinHash(LatticeValue(i, << 1, 1, 0 >>))
      e == SinHash(LatticeValue(i, << 0, 0, 1 >>))
      f1 == SinHash(LatticeValue(i, << 1, 0, 1 >>))
      g == SinHash(LatticeValue(i, << 0, 1, 1 >>))
      h == SinHash(LatticeValue(i, << 1, 1, 1 >>))
  IN  mix(mix(mix(a, b, u[1]), mix(c, d, u[1]), u[2]),
          mix(mix(e, f1, u[1]), mix(g, h, u[1]), u[2]), u[3])

\* The for loop of fractalNoise from iteration i on; frequency is a whole
\* number (1.0 at every call of the shaders).
RECURSIVE FractalLoop(_, _, _, _, _, _, _)
FractalLoop(pos, amplitude, octaves, i, noise, amp, freq) ==
  IF i < octaves
  THEN FractalLoop(pos, amplitude, octaves, i + 1,
                   noise + (perlinNoise(Scale(pos, freq)) * amp) \div StrengthOne,
                   (amp * amplitude) \div StrengthOne, freq * 2)
  ELSE noise

\* A noise that reads the uniforms of the mesh drawn.
fractalNoise_Animated(pos, frequency, amplitude, octaves) ==
  FractalLoop(pos, amplitude, octaves, 0, 0, StrengthOne, frequency)
    + (IF HasUniforms(groupChildren, earthMesh)
       THEN groupChildren[earthMesh].material.uniforms.uLODLevel
       ELSE 0)

fractalNoise(pos, frequency, amplitude, octaves) ==
  FractalLoop(pos, amplitude, octaves, 0, 0, StrengthOne, frequency)

\* elevation + terrainNoise * 0.3 + elevationNoise * 0.2
TerrainValue_NoNoise(elevation, terrainNoise, elevationNoise) == elevation

TerrainValue(elevation, terrainNoise, elevationNoise) ==
  elevation + (terrainNoise * 3) \div 10 + (elevationNoise * 2) \div 10

\* The terrain types, as the shaders number them.
Ocean == 0
Mountain == 1
Forest == 2
Plains == 3
Desert == 4
Tundra == 5
Canyon == 6

\* alpha is texture2D(uAlphaMap, uv).r
classifyEnhancedTerrain(alpha, worldPos, elevation) ==
  IF alpha < 500 THEN Ocean
  ELSE LET terrainNoise == perlinNoise(Scale(worldPos, 4))
           elevationNoise == perlinNoise(Scale(worldPos, 8))
           terrainValue == TerrainValue(elevation, terrainNoise, elevationNoise)
       IN  IF terrainValue > 800 THEN Mountain
           ELSE IF terrainValue > 600 THEN Forest
           ELSE IF terrainValue > 400 THEN Plains
           ELSE IF terrainValue > 200 THEN Desert
           ELSE IF terrainValue > 0 THEN Tundra
           ELSE Canyon

\* distance >= radius of smoothFalloff
Beyond_Never(distance, radius) == FALSE

Beyond(distance, radius) == distance >= radius

\* smoothFalloff of fragment.glsl: quadratic
smoothFalloff(distance, radius) ==
  IF Beyond(distance, radius) THEN 0
  ELSE LET normalizedDist == (distance * StrengthOne) \div radius
       IN  ((StrengthOne - normalizedDist) * (StrengthOne - normalizedDist))
             \div StrengthOne

\* smoothFalloff of the vertex shader part_000: cubic
smoothFalloff_cubic(distance, radius) ==
  IF Beyond(distance, radius) THEN 0
  ELSE LET normalizedDist == (distance * StrengthOne) \div radius
           falloff == StrengthOne - normalizedDist
       IN  (falloff * falloff * falloff) \div (StrengthOne * StrengthOne)

(***************************************************************************)
(* Initial state: the script has been evaluated, init() is about to run.   *)
(***************************************************************************)
Init ==
  /\ now = 0
  /\ pc = "init"
  /\ domCanvas \in BOOLEAN
  /\ canvas = FALSE
  /\ canvasWaitCount = 0
  /\ renderer = FALSE
  /\ controls = FALSE
  /\ texturePromise = "none"
  /\ texturesPending = {}
  /\ loadedCount = 0
  /\ hasError = FALSE
  /\ settleCalls = 0
  /\ groupChildren = << >>
  /\ earthMesh = 0
  /\ controlsMaterial = 0
  /\ lodManager = LODManagerInit
  /\ performanceMonitor = PerformanceMonitorInit
  /\ optimizeTimers = << >>
  /\ enhancedGlobeTimer = TRUE
  /\ camDist = InitialCameraDistance
  /\ lastTime = 0
  /\ rafPending = 0
  /\ bulgeStrength = 0
  /\ targetBulgeStrength = 0
  /\ mouse = << 0, 0, 0 >>
  /\ targetMouse = << 0, 0, 0 >>
  /\ lastFrame = [prevLOD |-> 300, committed |-> FALSE,
                  geometriesCreated |-> 0, geometriesDisposed |-> 0]
  /\ terrainCache = EnhancedTerrainCacheInit.terrainCache
  /\ cacheSize = EnhancedTerrainCacheInit.cacheSize
  /\ cacheHitRate = EnhancedTerrainCacheInit.cacheHitRate
  /\ totalRequests = EnhancedTerrainCacheInit.totalRequests
  /\ errorHandler = ErrorHandlerInit
  /\ groupRotation = 0
  /\ mouseMoveTimeout = NoTimeout
  /\ lastRaycastTime = 0
  /\ isMouseOverEarth = FALSE
  /\ raycastLog = << >>
  /\ lastPointerEvent = [kind |-> "none", position |-> "none", odd |-> FALSE]
  /\ shaderSamples = << >>

textureVars ==
  << texturePromise, texturesPending, loadedCount, hasError, settleCalls >>
frameVars ==
  << lodManager, performanceMonitor, optimizeTimers, lastTime, rafPending,
     bulgeStrength, mouse, lastFrame, groupRotation >>
pointerVars ==
  << targetBulgeStrength, targetMouse, mouseMoveTimeout, lastRaycastTime,
     isMouseOverEarth, raycastLog, lastPointerEvent >>
cacheVars == << terrainCache, cacheSize, cacheHitRate, totalRequests >>
\* The state of the utility classes the driver's handlers do not touch.
utilityVars == << cacheVars, errorHandler, shaderSamples >>

\* What a frame reads.
FrameInput ==
  [pm |-> performanceMonitor, timers |-> optimizeTimers, ch |-> groupChildren,
   em |-> earthMesh, lod |-> lodManager, lt |-> lastTime, bs |-> bulgeStrength,
   tbs |-> targetBulgeStrength, ms |-> mouse, tms |-> targetMouse,
   dist |-> camDist, clock |-> now, rot |-> groupRotation]

(***************************************************************************)
(* init                                                                    *)
(***************************************************************************)
InitCatch_Rethrow(ch, em) == [ch |-> ch, em |-> em, pc |-> "rejected"]

\* The catch block of init: createBasicEarthMesh(), and init returns.
InitCatch(ch, em) ==
  LET b == createBasicEarthMesh(ch) IN
  [ch |-> b.ch, em |-> b.em, pc |-> "degraded"]

\* init from the point where the canvas has been found: setupRenderer,
\* setupControls (either may fail: rendererOk, controlsOk), loadTextures.
InitProceed(rendererOk, controlsOk) ==
  /\ canvas' = TRUE
  /\ renderer' = rendererOk
  /\ controls' = (rendererOk /\ controlsOk)
  /\ canvasWaitCount' = 0
  /\ IF rendererOk /\ controlsOk
     THEN /\ pc' = "textures"
          /\ texturePromise' = "pending"
          /\ texturesPending' = TextureNames
          /\ UNCHANGED << groupChildren, earthMesh >>
     ELSE /\ LET c == InitCatch(groupChildren, earthMesh) IN
               /\ pc' = c.pc
               /\ groupChildren' = c.ch
               /\ earthMesh' = c.em
          /\ UNCHANGED << texturePromise, texturesPending >>
  /\ UNCHANGED << loadedCount, hasError, settleCalls >>

\* waitForCanvas() failed: count the attempt and sleep 100 ms.
InitSleep ==
  /\ canvasWaitCount' = canvasWaitCount + 1
  /\ pc' = "canvasWait"
  /\ UNCHANGED << canvas, renderer, controls, groupChildren, earthMesh >>
  /\ UNCHANGED textureVars

\* The page gets its canvas.webgl element.
DomCanvasReady ==
  /\ ~domCanvas
  /\ domCanvas' = TRUE
  /\ UNCHANGED << now, pc, canvas, canvasWaitCount, renderer, controls,
                  groupChildren, earthMesh, controlsMaterial,
                  enhancedGlobeTimer, camDist >>
  /\ UNCHANGED << textureVars, frameVars, pointerVars, utilityVars >>

\* init() up to its first await.
InitRun(rendererOk, controlsOk) ==
  /\ pc = "init"
  /\ IF domCanvas THEN InitProceed(rendererOk, controlsOk) ELSE InitSleep
  /\ UNCHANGED << now, domCanvas, controlsMaterial, enhancedGlobeTimer,
                  camDist >>
  /\ UNCHANGED << frameVars, pointerVars, utilityVars >>

\* The 100 ms sleep of the canvas wait loop ends: the bound check, then the
\* loop test again.
CanvasWaitTimeout(rendererOk, controlsOk) ==
  /\ pc = "canvasWait"
  /\ IF canvasWaitCount > MaxCanvasWait
     THEN /\ LET c == InitCatch(groupChildren, earthMesh) IN
               /\ pc' = c.pc
               /\ groupChildren' = c.ch
               /\ earthMesh' = c.em
          /\ canvasWaitCount' = 0
          /\ UNCHANGED << canvas, renderer, controls >>
          /\ UNCHANGED textureVars
     ELSE IF domCanvas THEN InitProceed(rendererOk, controlsOk)
     ELSE InitSleep
  /\ UNCHANGED << now, domCanvas, controlsMaterial, enhancedGlobeTimer,
                  camDist >>
  /\ UNCHANGED << frameVars, pointerVars, utilityVars >>

(***************************************************************************)
(* loadTextures and the rest of init                                       *)
(***************************************************************************)
\* if (loadedCount === totalTextures && !hasError)
AllLoaded(count, err) == count = totalTextures /\ ~err

FirstError_Always(err) == TRUE

\* if (!hasError)
FirstError(err) == ~err

\* init after `await loadTextures()` returned: createEarthMesh() and
\* animate(0).  meshOutcome: "ok", "materialThrows" (new ShaderMaterial
\* throws), "sceneThrows" (a call after group.add throws); renderOk: whether
\* controls.update() and renderer.render() of the first frame return.
InitResume(meshOutcome, renderOk) ==
  LET geo == LODManager_createGeometry(lodManager)
      ch1 == Append(groupChildren, EnhancedMesh(geo.resolution))
      em1 == Len(ch1)
      f == animate(0, [FrameInput EXCEPT !.ch = ch1, !.em = em1,
                                         !.lod = geo.lod])
  IN
  CASE meshOutcome = "materialThrows" ->
         LET c == InitCatch(groupChildren, earthMesh) IN
         /\ lodManager' = geo.lod
         /\ groupChildren' = c.ch
         /\ earthMesh' = c.em
         /\ pc' = c.pc
         /\ UNCHANGED << controlsMaterial, performanceMonitor, optimizeTimers,
                         lastTime, rafPending, bulgeStrength, mouse,
                         lastFrame, groupRotation >>
    [] meshOutcome = "sceneThrows" ->
         LET c == InitCatch(ch1, em1) IN
         /\ lodManager' = geo.lod
         /\ controlsMaterial' = em1
         /\ groupChildren' = c.ch
         /\ earthMesh' = c.em
         /\ pc' = c.pc
         /\ UNCHANGED << performanceMonitor, optimizeTimers, lastTime,
                         rafPending, bulgeStrength, mouse, lastFrame, groupRotation >>
    [] OTHER ->
         /\ controlsMaterial' = em1
         /\ lodManager' = f.lod
         /\ performanceMonitor' = f.pm
         /\ optimizeTimers' = f.timers
         /\ lastTime' = f.lt
         /\ bulgeStrength' = f.bs
         /\ mouse' = f.ms
         /\ lastFrame' = f.frame
         /\ groupRotation' = f.rot
         /\ IF renderOk
            THEN /\ rafPending' = rafPending + FramesRequested(renderOk)
                 /\ groupChildren' = f.ch
                 /\ earthMesh' = em1
                 /\ pc' = "rendering"
            ELSE LET c == InitCatch(f.ch, em1) IN
                 /\ rafPending' = rafPending
                 /\ groupChildren' = c.ch
                 /\ earthMesh' = c.em
                 /\ pc' = c.pc

\* The onLoad callback of texture t (checkAllLoaded), and, when it resolves
\* the promise, the continuation of init.
TextureLoaded(t, meshOutcome, renderOk) ==
  /\ texturePromise # "none"
  /\ t \in texturesPending
  /\ texturesPending' = texturesPending \ {t}
  /\ loadedCount' = loadedCount + 1
  /\ UNCHANGED hasError
  /\ IF AllLoaded(loadedCount + 1, hasError)
     THEN /\ settleCalls' = settleCalls + 1
          /\ IF texturePromise = "pending"
             THEN /\ texturePromise' = "resolved"
                  /\ InitResume(meshOutcome, renderOk)
             ELSE /\ UNCHANGED << texturePromise, pc, groupChildren,
                                  earthMesh, controlsMaterial >>
                  /\ UNCHANGED frameVars
     ELSE /\ UNCHANGED << settleCalls, texturePromise, pc, groupChildren,
                          earthMesh, controlsMaterial >>
          /\ UNCHANGED frameVars
  /\ UNCHANGED << now, domCanvas, canvas, canvasWaitCount, renderer, controls,
                  enhancedGlobeTimer, camDist >>
  /\ UNCHANGED << pointerVars, utilityVars >>

\* The onError callback of texture t (handleError), and, when it rejects the
\* promise, the catch block of init.
TextureError(t) ==
  /\ texturePromise # "none"
  /\ t \in texturesPending
  /\ texturesPending' = texturesPending \ {t}
  /\ UNCHANGED loadedCount
  /\ IF FirstError(hasError)
     THEN /\ hasError' = TRUE
          /\ settleCalls' = settleCalls + 1
          /\ IF texturePromise = "pending"
             THEN LET c == InitCatch(groupChildren, earthMesh) IN
                  /\ texturePromise' = "rejected"
                  /\ pc' = c.pc
                  /\ groupChildren' = c.ch
                  /\ earthMesh' = c.em
             ELSE UNCHANGED << texturePromise, pc, groupChildren, earthMesh >>
     ELSE UNCHANGED << hasError, settleCalls, texturePromise, pc,
                       groupChildren, earthMesh >>
  /\ UNCHANGED << now, domCanvas, canvas, canvasWaitCount, renderer, controls,
                  controlsMaterial, enhancedGlobeTimer, camDist >>
  /\ UNCHANGED << frameVars, pointerVars, utilityVars >>

(***************************************************************************)
(* The frame loop                                                          *)
(***************************************************************************)
\* One animate callback run by requestAnimationFrame, with the current time
\* as its timestamp.  renderOk: controls.update() and renderer.render()
\* return, and the next frame is requested; otherwise the exception leaves
\* the callback.  Frames run only after createEarthMesh, so renderer, scene
\* and camera are set.  cap bounds the frames counted in one FPS window and
\* horizon the time at which frames still run.
AnimateFrame(cap, horizon, renderOk) ==
  /\ rafPending > 0
  /\ performanceMonitor.frameCount < cap
  /\ now <= horizon
  /\ LET f == animate(now, FrameInput) IN
       /\ performanceMonitor' = f.pm
       /\ optimizeTimers' = f.timers
       /\ groupChildren' = f.ch
       /\ lodManager' = f.lod
       /\ lastTime' = f.lt
       /\ bulgeStrength' = f.bs
       /\ mouse' = f.ms
       /\ lastFrame' = f.frame
       /\ groupRotation' = f.rot
  /\ rafPending' = (rafPending - 1) + FramesRequested(renderOk)
  /\ UNCHANGED << now, pc, domCanvas, canvas, canvasWaitCount, renderer,
                  controls, earthMesh, controlsMaterial, enhancedGlobeTimer,
                  camDist >>
  /\ UNCHANGED << textureVars, pointerVars, utilityVars >>

\* The timer set by triggerOptimization: this.isOptimizing = false
ClearOptimizing ==
  /\ optimizeTimers # << >>
  /\ now >= Head(optimizeTimers)
  /\ optimizeTimers' = Tail(optimizeTimers)
  /\ performanceMonitor' = [performanceMonitor EXCEPT !.isOptimizing = FALSE]
  /\ UNCHANGED << now, pc, domCanvas, canvas, canvasWaitCount, renderer,
                  controls, groupChildren, earthMesh, controlsMaterial,
                  lodManager, enhancedGlobeTimer, camDist, lastTime,
                  rafPending, bulgeStrength, mouse, lastFrame, groupRotation >>
  /\ UNCHANGED << textureVars, pointerVars, utilityVars >>

\* setupEnhancedGlobe, run by the timer the script sets for 1000 ms.
EnhancedGlobeTimer ==
  /\ enhancedGlobeTimer
  /\ now >= EnhancedGlobeDelayMs
  /\ enhancedGlobeTimer' = FALSE
  /\ camDist' = InitialCameraDistance
  /\ groupChildren' =
       LET ch1 == IF HasUniforms(groupChildren, earthMesh)
                  THEN [groupChildren EXCEPT
                          ![earthMesh].material.uniforms =
                             [@ EXCEPT !.uSize = 15, !.uDetailLevel = 10]]
                  ELSE groupChildren
       IN IF earthMesh # 0
          THEN [ch1 EXCEPT ![earthMesh].geometry = EnhancedGlobeResolution]
          ELSE ch1
  /\ UNCHANGED << now, pc, domCanvas, canvas, canvasWaitCount, renderer,
                  controls, earthMesh, controlsMaterial >>
  /\ UNCHANGED << textureVars, frameVars, pointerVars, utilityVars >>

(***************************************************************************)
(* Input                                                                   *)
(***************************************************************************)
\* The orbit controls move the camera to distance d from the globe.
Zoom(d) ==
  /\ controls
  /\ d # camDist
  /\ camDist' = d
  /\ UNCHANGED << now, pc, domCanvas, canvas, canvasWaitCount, renderer,
                  controls, groupChildren, earthMesh, controlsMaterial,
                  enhancedGlobeTimer >>
  /\ UNCHANGED << textureVars, frameVars, pointerVars, utilityVars >>

\* currentLOD >= 300 ? 150 : currentLOD >= 150 ? 100 : 300
NextManualLOD(currentLOD) ==
  IF currentLOD >= 300 THEN 150 ELSE IF currentLOD >= 150 THEN 100 ELSE 300

\* keydown 'l'
KeyL ==
  /\ controlsMaterial # 0
  /\ lodManager' = [lodManager EXCEPT
                      !.currentLOD = NextManualLOD(lodManager.currentLOD),
                      !.needsGeometryUpdate = TRUE]
  /\ UNCHANGED << now, pc, domCanvas, canvas, canvasWaitCount, renderer,
                  controls, groupChildren, earthMesh, controlsMaterial,
                  performanceMonitor, optimizeTimers, enhancedGlobeTimer,
                  camDist, lastTime, rafPending, bulgeStrength, mouse,
                  lastFrame, groupRotation >>
  /\ UNCHANGED << textureVars, pointerVars, utilityVars >>

\* keydown 'r': resetToEnhancedDefaults.  With the fallback mesh in
\* earthMesh its first line throws and nothing is changed.
KeyR ==
  /\ controlsMaterial # 0
  /\ IF HasUniforms(groupChildren, earthMesh)
     THEN /\ groupChildren' =
               [groupChildren EXCEPT
                  ![earthMesh].material.uniforms =
                     [@ EXCEPT !.uTerrainDiversity = DiversityOne,
                               !.uDetailLevel = 10,
                               !.uBrightness = 15,
                               !.uContrast = 14]]
          /\ lodManager' = [lodManager EXCEPT !.currentLOD = 300,
                                               !.needsGeometryUpdate = TRUE]
          /\ LET c == EnhancedTerrainCache_clear IN
               /\ terrainCache' = c.terrainCache
               /\ cacheSize' = c.cacheSize
               /\ cacheHitRate' = c.cacheHitRate
               /\ totalRequests' = c.totalRequests
     ELSE UNCHANGED << groupChildren, lodManager, cacheVars >>
  /\ UNCHANGED << now, pc, domCanvas, canvas, canvasWaitCount, renderer,
                  controls, earthMesh, controlsMaterial, performanceMonitor,
                  optimizeTimers, enhancedGlobeTimer, camDist, lastTime,
                  rafPending, bulgeStrength, mouse, lastFrame, groupRotation >>
  /\ UNCHANGED << textureVars, pointerVars, errorHandler, shaderSamples >>

(***************************************************************************)
(* Pointer events                                                          *)
(***************************************************************************)
\* setupHoverTracking has run: createEarthMesh calls it next to
\* setupEnhancedControls.
HoverTracking == controlsMaterial # 0

nonPointerVars ==
  << now, pc, domCanvas, canvas, canvasWaitCount, renderer, controls,
     earthMesh, controlsMaterial, enhancedGlobeTimer, camDist, textureVars,
     frameVars, utilityVars >>

\* The mousemove listener: the pending timer is cleared and a new one set.
MouseMove(position) ==
  /\ HoverTracking
  /\ mouseMoveTimeout' =
       [pending |-> TRUE, due |-> now + DebounceMs, position |-> position]
  /\ lastPointerEvent' = [kind |-> "move", position |-> position,
                           odd |-> ~lastPointerEvent.odd]
  /\ UNCHANGED << targetBulgeStrength, targetMouse, lastRaycastTime,
                  isMouseOverEarth, raycastLog, groupChildren >>
  /\ UNCHANGED nonPointerVars

\* The debounce timer fires: updateHoverPosition(event.clientX, event.clientY)
HoverTimeout ==
  /\ mouseMoveTimeout.pending
  /\ now >= mouseMoveTimeout.due
  /\ LET p == updateHoverPosition(
                [lrt |-> lastRaycastTime, tms |-> targetMouse,
                 tbs |-> targetBulgeStrength, over |-> isMouseOverEarth,
                 ch |-> groupChildren, em |-> earthMesh,
                 rot |-> groupRotation, log |-> raycastLog],
                mouseMoveTimeout.position, now)
     IN /\ lastRaycastTime' = p.lrt
        /\ targetMouse' = p.tms
        /\ targetBulgeStrength' = p.tbs
        /\ isMouseOverEarth' = p.over
        /\ groupChildren' = p.ch
        /\ raycastLog' = p.log
  /\ mouseMoveTimeout' = NoTimeout
  /\ UNCHANGED lastPointerEvent
  /\ UNCHANGED nonPointerVars

\* The mouseleave listener of the canvas.
MouseLeave ==
  /\ HoverTracking
  /\ targetBulgeStrength' = 0
  /\ isMouseOverEarth' = FALSE
  /\ lastPointerEvent' = [kind |-> "leave", position |-> "none",
                           odd |-> ~lastPointerEvent.odd]
  /\ UNCHANGED << targetMouse, mouseMoveTimeout, lastRaycastTime, raycastLog,
                  groupChildren >>
  /\ UNCHANGED nonPointerVars

\* The keys of the keydown listener that write a uniform.
VisualKeys == {"t", "g", "f", "b", "v", "c", "x", "a"}

Max(a, b) == IF a >= b THEN a ELSE b

\* The switch of the keydown listener, for the keys that write a uniform:
\* the uniforms after the key.  Brightness, contrast and animation are in
\* tenths.
keydown(uniforms, key) ==
  CASE key = "t" ->
         [uniforms EXCEPT !.uTerrainDiversity =
            IF @ > DiversityOne \div 2 THEN 0 ELSE (DiversityOne * 3) \div 2]
    [] key = "g" ->
         [uniforms EXCEPT !.uTerrainDiversity =
            Min(DiversityOne, @ + DiversityOne \div 10)]
    [] key = "f" ->
         [uniforms EXCEPT !.uTerrainDiversity =
            Max(0, @ - DiversityOne \div 10)]
    [] key = "b" -> [uniforms EXCEPT !.uBrightness = Min(20, @ + 1)]
    [] key = "v" -> [uniforms EXCEPT !.uBrightness = Max(5, @ - 1)]
    [] key = "c" -> [uniforms EXCEPT !.uContrast = Min(20, @ + 1)]
    [] key = "x" -> [uniforms EXCEPT !.uContrast = Max(5, @ - 1)]
    [] key = "a" ->
         [uniforms EXCEPT !.uTerrainAnimation = IF @ > 5 THEN 0 ELSE 10]
    [] OTHER -> uniforms

\* keydown of a key that writes a uniform of the material the listener was
\* set up with.
KeyDown(key) ==
  /\ controlsMaterial # 0
  /\ groupChildren' =
       [groupChildren EXCEPT ![controlsMaterial].material.uniforms =
          keydown(@, key)]
  /\ UNCHANGED << now, pc, domCanvas, canvas, canvasWaitCount, renderer,
                  controls, earthMesh, controlsMaterial, lodManager,
                  performanceMonitor, optimizeTimers, enhancedGlobeTimer,
                  camDist, lastTime, rafPending, bulgeStrength, mouse,
                  lastFrame, groupRotation >>
  /\ UNCHANGED << textureVars, pointerVars, utilityVars >>

(***************************************************************************)
(* Calls of the shader functions, made while the shader mesh is drawn.     *)
(***************************************************************************)
\* Vertex positions, texture samples and distances the calls are made with.
ShaderPositions == { << 0, 0, 0 >>, << 250, 0, 0 >>, << 500, 250, 0 >> }
AlphaSamples == {0, 499, 500, 1000}
ElevationSamples == {0, 200, 400, 600, 800, 1000}
FalloffDistances == {0, 300, 600, 899, 900, 1200}
NoiseFrequencies == {1, 2}
NoiseAmplitudes == {500}
NoiseOctaves == 1 .. 3

nonShaderVars ==
  << now, pc, domCanvas, canvas, canvasWaitCount, renderer, controls,
     groupChildren, earthMesh, controlsMaterial, enhancedGlobeTimer, camDist,
     textureVars, frameVars, pointerVars, cacheVars, errorHandler >>

ShaderDrawn == HasUniforms(groupChildren, earthMesh)

\* The samples after a call: the call before it is kept when pair is set and
\* it was a call of the same function with the same arguments.
Sampled(fn, pair, args, result) ==
  LET sample == [fn |-> fn, args |-> args, result |-> result,
                 uniforms |-> groupChildren[earthMesh].material.uniforms]
  IN  IF pair /\ shaderSamples # << >>
           /\ shaderSamples[Len(shaderSamples)].fn = fn
           /\ shaderSamples[Len(shaderSamples)].args = args
      THEN << shaderSamples[Len(shaderSamples)], sample >>
      ELSE << sample >>

\* vTerrainType = classifyEnhancedTerrain(uv, position, elevation) of main
ClassifyVertex(alpha, worldPos, elevation) ==
  /\ ShaderDrawn
  /\ shaderSamples' =
       Sampled("classifyEnhancedTerrain", FALSE,
               [alpha |-> alpha, worldPos |-> worldPos, elevation |-> elevation],
               classifyEnhancedTerrain(alpha, worldPos, elevation))
  /\ UNCHANGED nonShaderVars

\* smoothFalloff(distance, radius) of calculateBulgeDisplacement, in either
\* vertex shader.
BulgeFalloff(variant, distance) ==
  /\ ShaderDrawn
  /\ shaderSamples' =
       Sampled("smoothFalloff", FALSE,
               [variant |-> variant, distance |-> distance,
                radius |-> bulgeRadius],
               IF variant = "cubic"
               THEN smoothFalloff_cubic(distance, bulgeRadius)
               ELSE smoothFalloff(distance, bulgeRadius))
  /\ UNCHANGED nonShaderVars

\* A call of fractalNoise.
NoiseCall(pos, frequency, amplitude, octaves) ==
  /\ ShaderDrawn
  /\ shaderSamples' =
       Sampled("fractalNoise", TRUE,
               [pos |-> pos, frequency |-> frequency,
                amplitude |-> amplitude, octaves |-> octaves],
               fractalNoise(pos, frequency, amplitude, octaves))
  /\ UNCHANGED nonShaderVars

(***************************************************************************)
(* Calls of the terrain cache                                              *)
(***************************************************************************)
\* Sample coordinates in thousandths: 0 and 5 share a key.
CacheCoordinates == {0, 5, 10, 20, 30, 40}
CacheData == {1, 2}

TerrainCacheState ==
  [terrainCache |-> terrainCache, cacheSize |-> cacheSize,
   cacheHitRate |-> cacheHitRate, totalRequests |-> totalRequests]

nonCacheVars ==
  << now, pc, domCanvas, canvas, canvasWaitCount, renderer, controls,
     groupChildren, earthMesh, controlsMaterial, enhancedGlobeTimer, camDist,
     textureVars, frameVars, pointerVars, errorHandler, shaderSamples >>

CacheSet(u, terrainData) ==
  /\ LET c == EnhancedTerrainCache_set(TerrainCacheState, u, 0, DiversityOne,
                                       terrainData) IN
       /\ terrainCache' = c.terrainCache
       /\ cacheSize' = c.cacheSize
       /\ cacheHitRate' = c.cacheHitRate
       /\ totalRequests' = c.totalRequests
  /\ UNCHANGED nonCacheVars

CacheGet(u) ==
  /\ totalRequests < MaxRequests
  /\ LET c == EnhancedTerrainCache_get(TerrainCacheState, u, 0,
                                       DiversityOne).cache IN
       /\ terrainCache' = c.terrainCache
       /\ cacheSize' = c.cacheSize
       /\ cacheHitRate' = c.cacheHitRate
       /\ totalRequests' = c.totalRequests
  /\ UNCHANGED nonCacheVars

\* window.debug.clearCache()
CacheClear ==
  /\ terrainCache # << >> \/ totalRequests > 0
  /\ LET c == EnhancedTerrainCache_clear IN
       /\ terrainCache' = c.terrainCache
       /\ cacheSize' = c.cacheSize
       /\ cacheHitRate' = c.cacheHitRate
       /\ totalRequests' = c.totalRequests
  /\ UNCHANGED nonCacheVars

(***************************************************************************)
(* Calls of the error handler                                              *)
(***************************************************************************)
ErrorContexts == {"Globe Rendering", "Test Runner"}

nonErrorVars ==
  << pc, domCanvas, canvas, canvasWaitCount, renderer, controls,
     groupChildren, earthMesh, controlsMaterial, enhancedGlobeTimer, camDist,
     textureVars, frameVars, pointerVars, cacheVars, shaderSamples >>

HandleError(context, windowRenderer) ==
  /\ errorHandler.errorCount < MaxHandled
  /\ Len(errorHandler.errorLog) < MaxHandled
  /\ errorHandler' =
       ErrorHandler_handle(errorHandler, context, windowRenderer, now)
  /\ UNCHANGED << now, nonErrorVars >>

ExitSafeMode ==
  /\ errorHandler.isSafeMode
  /\ errorHandler' = exitSafeMode(errorHandler)
  /\ UNCHANGED << now, nonErrorVars >>

ResetErrors ==
  /\ errorHandler.errorLog # << >>
  /\ errorHandler' = ErrorHandler_reset(errorHandler)
  /\ UNCHANGED << now, nonErrorVars >>

(***************************************************************************)
(* Time                                                                    *)
(***************************************************************************)
\* A timer is pending and not yet due.
TimerAhead ==
  \/ enhancedGlobeTimer /\ now < EnhancedGlobeDelayMs
  \/ \E i \in 1 .. Len(optimizeTimers) : now < optimizeTimers[i]

\* dt ms pass.  The clock runs to the horizon, and past it as long as a
\* pending timer is not yet due.
Tick(dt, horizon) ==
  /\ (now + dt <= horizon) \/ TimerAhead
  /\ now' = now + dt
  /\ UNCHANGED << pc, domCanvas, canvas, canvasWaitCount, renderer, controls,
                  groupChildren, earthMesh, controlsMaterial,
                  enhancedGlobeTimer, camDist >>
  /\ UNCHANGED << textureVars, frameVars, pointerVars, utilityVars >>

(***************************************************************************)
(* Specifications                                                          *)
(***************************************************************************)
MeshOutcomes == {"ok", "materialThrows", "sceneThrows"}

\* Initialization, common to every specification.
Startup ==
  \/ DomCanvasReady
  \/ \E r \in BOOLEAN, c \in BOOLEAN : InitRun(r, c)
  \/ \E r \in BOOLEAN, c \in BOOLEAN : CanvasWaitTimeout(r, c)
  \/ \E t \in TextureNames, m \in MeshOutcomes, ok \in BOOLEAN :
       TextureLoaded(t, m, ok)
  \/ \E t \in TextureNames : TextureError(t)

\* The timers with a deadline.
Timers ==
  \/ EnhancedGlobeTimer
  \/ ClearOptimizing

\* Initialization, the frame loop and the camera and keyboard input, with
\* every clock reading inside the first FPS window: no timer with a deadline
\* is due, and the frames are those of that window.
Next ==
  \/ Startup
  \/ \E ok \in BOOLEAN : AnimateFrame(MaxWindowFrames, 0, ok)
  \/ \E d \in Distances : Zoom(d)
  \/ KeyL
  \/ KeyR

Spec == Init /\ [][Next]_vars

\* The performance monitor around the FPS threshold: no input, the clock in
\* half seconds.
NextPerf ==
  \/ Startup
  \/ Timers
  \/ \E ok \in BOOLEAN : AnimateFrame(MaxFrames, 1000 * MaxPerfSeconds, ok)
  \/ Tick(500, 1000 * MaxPerfSeconds)

SpecPerf == Init /\ [][NextPerf]_vars

\* The mitigation cooldown: a slow machine over several seconds, no input,
\* the clock in half seconds.
NextCooldown ==
  \/ Startup
  \/ Timers
  \/ \E ok \in BOOLEAN : AnimateFrame(MaxSlowFrames, 1000 * MaxCooldownSeconds, ok)
  \/ Tick(500, 1000 * MaxCooldownSeconds)

\* A timer callback that is due is run, and time passes.
SpecCooldown ==
  /\ Init
  /\ [][NextCooldown]_vars
  /\ WF_vars(ClearOptimizing)
  /\ WF_vars(Tick(500, 1000 * MaxCooldownSeconds))

(***************************************************************************)
(* Properties                                                              *)
(***************************************************************************)
\* A step in which animate ran: PerformanceMonitor.update counted a frame.
FrameStep ==
  \/ performanceMonitor'.frameCount # performanceMonitor.frameCount
  \/ performanceMonitor'.lastFPSUpdate # performanceMonitor.lastFPSUpdate

\* A frame has run.
FrameHasRun ==
  performanceMonitor.frameCount > 0 \/ performanceMonitor.lastFPSUpdate > 0

\* The table of the LOD bands, distance descending: minimum distance,
\* resolution.
BandTable == << << 15, 100 >>, << 10, 150 >>, << 7, 200 >>, << 0, 300 >> >>

\* The resolution of the first band of BandTable whose minimum distance is
\* at most d, and 300 when there is none.
FirstBand(d) ==
  IF \E i \in 1 .. Len(BandTable) : BandTable[i][1] <= d
  THEN LET i == CHOOSE k \in 1 .. Len(BandTable) :
                  /\ BandTable[k][1] <= d
                  /\ \A j \in 1 .. (k - 1) : BandTable[j][1] > d
       IN BandTable[i][2]
  ELSE 300

\* The distances given to calculateOptimalLOD: those the camera takes, and
\* negative ones, which no band matches.
LODInputs == (-2) .. (MaxDistance + 1)

\* C1: calculateOptimalLOD returns, for every camera distance, the resolution
\* of the first band of the table (15->100, 10->150, 7->200, 0->300) whose
\* minimum distance is <= the distance, and 300 when no band matches; the
\* target the manager holds after a frame is that resolution for the camera
\* distance of the frame.
C1_OptimalLOD ==
  /\ [](\A d \in LODInputs : calculateOptimalLOD(d) = FirstBand(d))
  /\ [][FrameStep => lodManager'.targetLOD = FirstBand(camDist)]_vars

C1_Witness ==
  /\ FrameHasRun
  /\ camDist >= 15
  /\ lodManager.targetLOD = 100

\* C2: LODManager.update changes currentLOD if and only if
\* |calculateOptimalLOD(distance) - currentLOD| >= 50; then currentLOD is the
\* target and needsGeometryUpdate is true; otherwise currentLOD and
\* needsGeometryUpdate are unchanged.  Stated of update applied to every
\* reachable manager state and every distance, and of the frames.
C2_UpdateHysteresis ==
  /\ [](\A d \in Distances :
          LET r == LODManager_update(lodManager, d)
              target == FirstBand(d)
              far == Abs(target - lodManager.currentLOD) >= 50
          IN /\ (r.currentLOD # lodManager.currentLOD) <=> far
             /\ far => r.currentLOD = target /\ r.needsGeometryUpdate
             /\ ~far => /\ r.currentLOD = lodManager.currentLOD
                        /\ r.needsGeometryUpdate =
                             lodManager.needsGeometryUpdate)
  /\ [][FrameStep =>
          LET far == Abs(FirstBand(camDist) - lodManager.currentLOD) >= 50
          IN /\ (lodManager'.currentLOD # lodManager.currentLOD) <=> far
             /\ far => lodManager'.currentLOD = FirstBand(camDist)]_vars

C2_Witness ==
  /\ lastFrame.committed
  /\ lastFrame.prevLOD = 150
  /\ lodManager.currentLOD = 200
  /\ lodManager.targetLOD = 200

\* Two resolutions of neighbouring bands: one band boundary lies between.
NeighbourBands(a, b) ==
  \E i \in 1 .. (Len(BandTable) - 1) :
    {a, b} = {BandTable[i][2], BandTable[i + 1][2]}

\* C3: anti-oscillation.  A camera distance alternating on either side of a
\* single band boundary in consecutive frames does not make currentLOD flip
\* on every crossing: when the previous frame moved currentLOD across one
\* band boundary, a frame whose distance is back on the other side does not
\* move it back, and regenerates nothing.
C3_NoFlipOnEveryCrossing ==
  [][(/\ FrameStep
      /\ lastFrame.committed
      /\ ~lodManager.needsGeometryUpdate
      /\ lodManager.currentLOD = lodManager.targetLOD
      /\ NeighbourBands(lastFrame.prevLOD, lodManager.currentLOD)
      /\ FirstBand(camDist) = lastFrame.prevLOD)
     => /\ lodManager'.currentLOD = lodManager.currentLOD
        /\ lastFrame'.geometriesCreated = 0]_vars

\* C4: each committed LOD transition leads to exactly one regeneration of the
\* mesh geometry at the new resolution, the old geometry being disposed; a
\* frame in which no transition is committed and no manual request is
\* pending regenerates nothing.  (The frames work on the mesh that
\* createEarthMesh adds, the first child of the group.)
C4_RegenerationPerTransition ==
  [][FrameStep =>
       LET committed == lodManager'.currentLOD # lodManager.currentLOD IN
       /\ committed =>
            /\ lastFrame'.geometriesCreated = 1
            /\ lastFrame'.geometriesDisposed = 1
            /\ groupChildren'[1].geometry = lodManager'.currentLOD
            /\ ~lodManager'.needsGeometryUpdate
       /\ (~committed /\ ~lodManager.needsGeometryUpdate) =>
            /\ lastFrame'.geometriesCreated = 0
            /\ lastFrame'.geometriesDisposed = 0
            /\ Len(groupChildren) >= 1 =>
                 groupChildren'[1].geometry = groupChildren[1].geometry]_vars

C4_Witness ==
  /\ pc = "rendering"
  /\ lastFrame.committed
  /\ lastFrame.geometriesCreated = 1
  /\ lastFrame.prevLOD = 100
  /\ groupChildren[1].geometry = 300

\* The terrain-diversity multiplier of the shader material; before the mesh
\* exists, the value createEarthMesh will give it.
TerrainDiversity ==
  IF HasUniforms(groupChildren, controlsMaterial)
  THEN groupChildren[controlsMaterial].material.uniforms.uTerrainDiversity
  ELSE DiversityOne

\* A step in which a mitigation fired: triggerOptimization armed its timer.
MitigationStep == Len(optimizeTimers') > Len(optimizeTimers)

\* C5: PerformanceMonitor.update: in a frame at a one-second window boundary
\* (1000 ms or more since the last one) the frames counted in the window,
\* this one included, become currentFPS, the counter resets to 0 and the
\* window restarts at the frame's time; in every other frame the counter
\* grows by one and currentFPS does not change; no other step changes it.
C5_WindowBoundary ==
  [][/\ FrameStep =>
          IF now - performanceMonitor.lastFPSUpdate >= 1000
          THEN /\ performanceMonitor'.currentFPS =
                    performanceMonitor.frameCount + 1
               /\ performanceMonitor'.frameCount = 0
               /\ performanceMonitor'.lastFPSUpdate = now
          ELSE /\ performanceMonitor'.currentFPS =
                    performanceMonitor.currentFPS
               /\ performanceMonitor'.frameCount =
                    performanceMonitor.frameCount + 1
               /\ performanceMonitor'.lastFPSUpdate =
                    performanceMonitor.lastFPSUpdate
     /\ ~FrameStep =>
          performanceMonitor'.currentFPS = performanceMonitor.currentFPS]_vars

C5_Witness ==
  /\ performanceMonitor.lastFPSUpdate = 2000
  /\ performanceMonitor.currentFPS = 2
  /\ performanceMonitor.frameCount = 1
  /\ now = 2500

\* C6 as stated: the frame that closes a one-second window of exactly 45
\* frames, no mitigation in cooldown, reports 45 and fires exactly one
\* mitigation.
C6_MitigationAt45 ==
  [][(/\ FrameStep
      /\ now - performanceMonitor.lastFPSUpdate >= 1000
      /\ performanceMonitor.frameCount + 1 = 45
      /\ ~performanceMonitor.isOptimizing)
     => /\ performanceMonitor'.currentFPS = 45
        /\ Len(optimizeTimers') = Len(optimizeTimers) + 1
        /\ performanceMonitor'.isOptimizing]_vars

\* C6: the frame that closes a one-second window, no mitigation in cooldown,
\* reports the frames counted; a window of exactly 45 frames reports 45 and
\* fires no mitigation, the threshold being strict; a window of fewer than 45
\* frames fires exactly one.
C6_MitigationBelow45 ==
  [][(/\ FrameStep
      /\ now - performanceMonitor.lastFPSUpdate >= 1000
      /\ ~performanceMonitor.isOptimizing)
     => LET counted == performanceMonitor.frameCount + 1 IN
        /\ performanceMonitor'.currentFPS = counted
        /\ counted = 45 =>
             /\ optimizeTimers' = optimizeTimers
             /\ ~performanceMonitor'.isOptimizing
             /\ TerrainDiversity' = TerrainDiversity
        /\ counted < 45 =>
             /\ Len(optimizeTimers') = Len(optimizeTimers) + 1
             /\ performanceMonitor'.isOptimizing
             /\ TerrainDiversity' * 10 = TerrainDiversity * 7]_vars

C6_Witness ==
  /\ performanceMonitor.currentFPS = 45
  /\ performanceMonitor.frameCount = 0
  /\ performanceMonitor.lastFPSUpdate = 1000
  /\ ~performanceMonitor.isOptimizing
  /\ optimizeTimers = << >>
  /\ pc = "rendering"
  /\ TerrainDiversity = DiversityOne

\* C7: a mitigation fires only when no earlier one is in its cooldown: the
\* flag is down, every earlier timer has run, and 3000 ms have passed since
\* the last mitigation.  Each mitigation arms one timer 3000 ms ahead, raises
\* the flag and multiplies the terrain-diversity multiplier by 0.7 once; the
\* multiplier changes in no other step of the monitor; the flag falls only
\* when its timer is due; a raised flag is eventually cleared.
C7_Cooldown ==
  /\ [][/\ MitigationStep =>
             /\ ~performanceMonitor.isOptimizing
             /\ optimizeTimers = << >>
             /\ optimizeTimers' = << now + 3000 >>
             /\ performanceMonitor'.isOptimizing
             /\ TerrainDiversity' * 10 = TerrainDiversity * 7
        /\ (FrameStep /\ ~MitigationStep) =>
             TerrainDiversity' = TerrainDiversity
        /\ (FrameStep /\ performanceMonitor.isOptimizing) =>
             /\ ~MitigationStep
             /\ performanceMonitor'.isOptimizing
        /\ (performanceMonitor.isOptimizing
              /\ ~performanceMonitor'.isOptimizing) =>
             /\ optimizeTimers # << >>
             /\ now >= Head(optimizeTimers)]_vars
  /\ [](performanceMonitor.isOptimizing => optimizeTimers # << >>)
  /\ (performanceMonitor.isOptimizing
        ~> ~performanceMonitor.isOptimizing)

C7_Witness ==
  /\ performanceMonitor.isOptimizing
  /\ optimizeTimers = << 7000 >>
  /\ TerrainDiversity * 100 = DiversityOne * 49

\* A step of init has failed: the canvas was not found within the bounded
\* wait, the renderer or the controls could not be set up, or a texture load
\* was rejected.
InitStepFailed ==
  \/ /\ pc \notin {"init", "canvasWait"}
     /\ ~canvas \/ ~renderer \/ ~controls
  \/ hasError

\* init has ended in the Degraded state: the earth mesh is the fallback
\* mesh, its material carries no shader uniforms, and no frame is requested.
Degraded ==
  /\ pc = "degraded"
  /\ earthMesh # 0
  /\ groupChildren[earthMesh].material.type = "PointsMaterial"
  /\ ~HasUniforms(groupChildren, earthMesh)
  /\ groupChildren[earthMesh].geometry = 200
  /\ rafPending = 0

\* C8: if a step of init fails (canvas not found within the bounded wait,
\* renderer or controls setup failing, a texture load rejected), init does
\* not throw past its boundary: it ends in the Degraded state with a fallback
\* earth mesh whose material carries no shading uniforms.
C8_InitFailureDegrades ==
  /\ pc # "rejected"
  /\ InitStepFailed => Degraded
  /\ pc = "degraded" => Degraded

C8_Witness ==
  /\ hasError
  /\ loadedCount = 3
  /\ pc = "degraded"
  /\ earthMesh = 1

\* The frame loop has been entered: a frame has run or one is requested.
LoopEntered ==
  \/ rafPending > 0
  \/ pc = "rendering"
  \/ FrameHasRun

\* C9: in every interleaving of the four texture callbacks the loadTextures
\* promise is settled at most once: it is resolved only when all four
\* textures have loaded and none has failed, it is rejected as soon as one
\* fails, and the frame loop is not entered before it has resolved.
C9_TexturePromise ==
  /\ settleCalls <= 1
  /\ texturePromise = "none" => settleCalls = 0 /\ loadedCount = 0
  /\ texturePromise = "pending" =>
       settleCalls = 0 /\ ~hasError /\ loadedCount < 4
  /\ texturePromise = "resolved" =>
       /\ settleCalls = 1
       /\ loadedCount = 4
       /\ ~hasError
       /\ texturesPending = {}
  /\ texturePromise = "rejected" <=> hasError
  /\ hasError => settleCalls = 1
  /\ LoopEntered => texturePromise = "resolved"

C9_Witness ==
  /\ texturePromise = "rejected"
  /\ texturesPending = {}
  /\ loadedCount = 2
  /\ settleCalls = 1

\* The step in which init, all four textures loaded, creates the earth mesh,
\* runs the first frame and requests the next one.
FirstTick == pc = "textures" /\ pc' = "rendering"

\* C10 as stated: after the first tick of a successful init the earth mesh
\* exists, its geometry has the initial resolution 300 and the bulge strength
\* is 0.
C10_FirstTickInitialLOD ==
  [][FirstTick =>
       /\ earthMesh' # 0
       /\ groupChildren'[earthMesh'].geometry = 300
       /\ bulgeStrength' = 0]_vars

\* C10: after the first tick of a successful init the earth mesh exists, its
\* geometry has the resolution of the LOD band of the camera distance, which
\* is currentLOD (150 at the initial distance 14, and the initial 300 only
\* below distance 7), and the bulge strength is 0.
C10_FirstTickBandLOD ==
  [][FirstTick =>
       /\ earthMesh' # 0
       /\ HasUniforms(groupChildren', earthMesh')
       /\ groupChildren'[earthMesh'].geometry = FirstBand(camDist)
       /\ groupChildren'[earthMesh'].geometry = lodManager'.currentLOD
       /\ camDist = 14 => groupChildren'[earthMesh'].geometry = 150
       /\ camDist < 7 => groupChildren'[earthMesh'].geometry = 300
       /\ bulgeStrength' = 0
       /\ groupChildren'[earthMesh'].material.uniforms.uBulgeStrength = 0]_vars

C10_Witness ==
  /\ pc = "rendering"
  /\ performanceMonitor.frameCount = 1
  /\ camDist = 14
  /\ earthMesh = 1
  /\ groupChildren[1].geometry = 150
  /\ bulgeStrength = 0

\* A frame run by requestAnimationFrame (not the one init calls).
LoopFrameStep == FrameStep /\ pc = "rendering"

\* C11: a transient render-call failure does not halt the render loop: a
\* frame of the loop, whether or not its draw call throws, leaves the next
\* frame requested.
C11_LoopSurvivesRenderFailure ==
  [][LoopFrameStep => rafPending' > 0]_vars

\* C15: the render loop is a single loop without reentrancy: at most one
\* animate callback is requested at any time, and only once init has run the
\* first frame; a frame of the loop consumes the one request and, being run
\* to completion, leaves at most one behind; no other step requests a frame.
C15_SingleLoop ==
  /\ [](rafPending \in {0, 1} /\ (rafPending = 1 => pc = "rendering"))
  /\ [][/\ LoopFrameStep => rafPending = 1 /\ rafPending' <= 1
        /\ rafPending' > rafPending => FrameStep]_vars

C15_Witness ==
  /\ rafPending = 1
  /\ performanceMonitor.frameCount = 3
  /\ pc = "rendering"

\* The terrain cache under any sequence of set, get and clear calls.
NextCache ==
  \/ \E u \in CacheCoordinates, d \in CacheData : CacheSet(u, d)
  \/ \E u \in CacheCoordinates : CacheGet(u)
  \/ CacheClear

SpecCache == Init /\ [][NextCache]_vars

\* The elements of a sequence.
Range(f) == {f[i] : i \in DOMAIN f}

\* C16: after any sequence of set, get and clear calls the terrain cache
\* holds at most maxCacheSize entries; a set that finds maxCacheSize entries
\* held removes the evictCount oldest-inserted ones and then inserts the new
\* one: the other entries stay, in their order, and the new key comes last
\* with its data.
C16_CacheBound ==
  /\ [](/\ Len(terrainCache) <= maxCacheSize
        /\ \A i, j \in 1 .. Len(terrainCache) :
             i # j => terrainCache[i].key # terrainCache[j].key
        /\ \A u \in CacheCoordinates, d \in CacheData :
             LET r == EnhancedTerrainCache_set(TerrainCacheState, u, 0,
                                               DiversityOne, d).terrainCache
                 old == CacheKeys(terrainCache)
                 key == generateKey(u, 0, DiversityOne)
                 staying == SubSeq(old, evictCount + 1, Len(old))
             IN /\ Len(r) <= maxCacheSize
                /\ Len(terrainCache) = maxCacheSize =>
                     /\ \A i \in 1 .. evictCount :
                          old[i] # key => old[i] \notin Range(CacheKeys(r))
                     /\ IF key \in Range(staying)
                        THEN CacheKeys(r) = staying
                        ELSE CacheKeys(r) = Append(staying, key)
                     /\ MapGet(r, key) = d)
  /\ [][Len(terrainCache') <= Len(terrainCache) + 1]_vars

C16_Witness ==
  /\ CacheKeys(terrainCache) =
       << generateKey(20, 0, DiversityOne), generateKey(30, 0, DiversityOne),
          generateKey(40, 0, DiversityOne) >>
  /\ cacheSize = 3

\* The error handler under any sequence of handle, exitSafeMode and reset
\* calls, the clock in seconds.
NextErrors ==
  \/ \E c \in ErrorContexts, w \in {"absent", "ok", "throws"} :
       HandleError(c, w)
  \/ ExitSafeMode
  \/ ResetErrors
  \/ Tick(1000, 1000 * MaxErrorSeconds) /\ now < 1000 * MaxErrorSeconds

SpecErrors == Init /\ [][NextErrors]_vars

\* A step in which handle ran.
HandleStep == errorHandler'.errorCount = errorHandler.errorCount + 1

\* The errors handled within the sliding window that ends now.
ErrorsInWindow(h, t) ==
  Cardinality({i \in DOMAIN h.errorLog :
                 h.errorLog[i].timestamp > t - ErrorWindowMs})

\* C17: handle enters safe mode exactly when the errors handled within the
\* sliding window exceed maxErrors = 5; errors outside the window do not
\* count.  Stated of the calls whose recovery is not the globe rendering
\* one, which has a fallback of its own.
C17_SafeModeSlidingWindow ==
  [][(/\ HandleStep
      /\ ~errorHandler.isSafeMode
      /\ errorHandler'.errorLog[Len(errorHandler'.errorLog)].context
           # "Globe Rendering")
     => (errorHandler'.isSafeMode <=>
           ErrorsInWindow(errorHandler', now) > 5)]_vars

\* The pointer: events, the debounce timer and frames over a few tens of
\* ms, the clock in steps of 4 ms.
NextPointer ==
  \/ Startup
  \/ \E ok \in BOOLEAN : AnimateFrame(MaxPointerFrames, MaxPointerMs, ok)
  \/ \E p \in PointerPositions : MouseMove(p)
  \/ MouseLeave
  \/ HoverTimeout
  \/ Tick(4, MaxPointerMs) /\ now + 4 <= MaxPointerMs

SpecPointer == Init /\ [][NextPointer]_vars

\* A step in which updateHoverPosition cast a ray.
RaycastStep == Len(raycastLog') > Len(raycastLog)

\* A step in which the mouseleave listener ran.
MouseLeaveStep ==
  /\ lastPointerEvent' # lastPointerEvent
  /\ lastPointerEvent'.kind = "leave"

\* The group's rotation applied to a point of its local space: rot quarter
\* turns about y.
RECURSIVE localToWorld(_, _)
localToWorld(point, rot) ==
  IF rot = 0 THEN point
  ELSE localToWorld(<< point[3], point[2], -point[1] >>, rot - 1)

\* C12: when a processed pointer ray intersects the earth mesh, the target
\* bulge strength becomes 1.0 and the target pointer position becomes the
\* intersection point in the group's local space (the point the group's
\* rotation carries to the intersection point); a pointer-leave event sets
\* the target bulge strength to 0.0.
C12_HoverTarget ==
  [][/\ (RaycastStep /\ Raycast(mouseMoveTimeout.position) # << >>) =>
          /\ targetBulgeStrength' = 1000
          /\ localToWorld(targetMouse', groupRotation) =
               Raycast(mouseMoveTimeout.position)
          /\ isMouseOverEarth'
     /\ MouseLeaveStep => targetBulgeStrength' = 0]_vars

C12_Witness ==
  /\ raycastLog # << >>
  /\ groupRotation = 1
  /\ targetMouse = << -2750, 0, 0 >>
  /\ targetBulgeStrength = 0
  /\ lastPointerEvent.kind = "leave"
  /\ ~mouseMoveTimeout.pending

\* C13: any two raycasts executed are at least 16 ms apart, whatever the
\* pointer events and the frames in between.
C13_RaycastThrottle ==
  /\ \A i, j \in 1 .. Len(raycastLog) :
       i < j => raycastLog[j].at - raycastLog[i].at >= 16
  /\ raycastLog # << >> =>
       lastRaycastTime = raycastLog[Len(raycastLog)].at

C13_Witness ==
  /\ Len(raycastLog) = 2
  /\ raycastLog[2].at - raycastLog[1].at = 16
  /\ performanceMonitor.frameCount = 2

\* C14: most recent event wins: once the pointer-move events have stopped
\* and no debounce timer is pending, the pointer target reflects the last
\* pointer-move event: the last raycast executed is the one of that event,
\* and the target bulge strength is the one its ray gives.  Stated of the
\* bursts in which some raycast has been executed.
C14_LastEventWins ==
  (/\ ~mouseMoveTimeout.pending
   /\ lastPointerEvent.kind = "move"
   /\ raycastLog # << >>)
  => /\ raycastLog[Len(raycastLog)].position = lastPointerEvent.position
     /\ targetBulgeStrength =
          (IF Raycast(lastPointerEvent.position) # << >> THEN 1000 ELSE 0)

NextShader ==
  \/ Startup
  \/ \E ok \in BOOLEAN : AnimateFrame(MaxShaderFrames, 0, ok)
  \/ \E d \in {InitialCameraDistance, MaxDistance} : Zoom(d)
  \/ \E alpha \in AlphaSamples, worldPos \in ShaderPositions,
        elevation \in ElevationSamples :
       ClassifyVertex(alpha, worldPos, elevation)
  \/ \E variant \in {"quadratic", "cubic"}, distance \in FalloffDistances :
       BulgeFalloff(variant, distance)
  \/ \E pos \in ShaderPositions, frequency \in NoiseFrequencies,
        amplitude \in NoiseAmplitudes, octaves \in NoiseOctaves :
       NoiseCall(pos, frequency, amplitude, octaves)

SpecShader == Init /\ [][NextShader]_vars

\* The last call of a shader function observed.
LastSample == shaderSamples[Len(shaderSamples)]

Called(fn) == shaderSamples # << >> /\ LastSample.fn = fn

\* The thresholds of the terrain value, descending, in thousandths.
TerrainThresholds == << 800, 600, 400, 200, 0 >>

\* C18: classifyEnhancedTerrain returns one of the seven categories: Ocean
\* (0) whenever the land-mask sample is below 0.5, whatever the elevation,
\* and otherwise the bucket of terrainValue = elevation + 0.3 * noise(4 *
\* position) + 0.2 * noise(8 * position) by the descending thresholds 0.8,
\* 0.6, 0.4, 0.2, 0.0: Mountain (1), Forest (2), Plains (3), Desert (4),
\* Tundra (5), else Canyon (6).
C18_TerrainClassification ==
  Called("classifyEnhancedTerrain") =>
    LET a == LastSample.args
        terrainValue ==
          a.elevation + (3 * perlinNoise(Scale(a.worldPos, 4))) \div 10
                      + (2 * perlinNoise(Scale(a.worldPos, 8))) \div 10
        notExceeded == {k \in 1 .. 5 : ~(terrainValue > TerrainThresholds[k])}
    IN  /\ LastSample.result \in 0 .. 6
        /\ a.alpha < 500 => LastSample.result = 0
        /\ a.alpha >= 500 => LastSample.result = 1 + Cardinality(notExceeded)

C18_Witness ==
  /\ Called("classifyEnhancedTerrain")
  /\ LastSample.args = [alpha |-> 500, worldPos |-> << 250, 0, 0 >>,
                        elevation |-> 600]
  /\ LastSample.result = 1

\* C19: the bulge falloff smoothFalloff(distance, radius) is 0 for every
\* distance >= radius, is its maximum 1.0 at distance 0, and does not
\* increase with the distance, in the quadratic and in the cubic shader.
C19_FalloffMonotone ==
  /\ [](Called("smoothFalloff") =>
          /\ LastSample.result \in 0 .. 1000
          /\ LastSample.args.distance >= LastSample.args.radius =>
               LastSample.result = 0
          /\ LastSample.args.distance = 0 => LastSample.result = 1000)
  /\ [][(/\ Called("smoothFalloff")
         /\ Called("smoothFalloff")'
         /\ LastSample.args.variant = LastSample'.args.variant
         /\ LastSample.args.radius = LastSample'.args.radius
         /\ LastSample.args.distance <= LastSample'.args.distance)
        => LastSample.result >= LastSample'.result]_vars

C19_Witness ==
  /\ Called("smoothFalloff")
  /\ LastSample.args = [variant |-> "cubic", distance |-> 300, radius |-> 900]
  /\ LastSample.result = 296

PointerHandlerStep ==
  \/ mouseMoveTimeout' # mouseMoveTimeout
  \/ lastPointerEvent' # lastPointerEvent

\* C21: the pointer event handlers write the pointer-target state (target
\* pointer position, target bulge strength, hover flag) only: the uniforms of
\* the meshes, the terrain-diversity multiplier among them, and the smoothed
\* pointer state the frames own are left as they are.
C21_PointerHandlersFrame ==
  [][PointerHandlerStep =>
       /\ groupChildren' = groupChildren
       /\ bulgeStrength' = bulgeStrength
       /\ mouse' = mouse
       /\ lodManager' = lodManager]_vars

\* C26: the cacheSize counter of the terrain cache is the number of entries
\* its map holds, after any sequence of set, get and clear calls.
C26_CacheSizeCounts == cacheSize = Len(terrainCache)

\* A step of exitSafeMode or reset: the error handler changes and no error
\* was counted.
ExitOrResetStep ==
  /\ errorHandler' # errorHandler
  /\ ~HandleStep

\* C27: after any sequence of handle, exitSafeMode and reset calls,
\* errorCount > maxErrors implies isSafeMode; exitSafeMode and reset leave
\* errorCount at 0 and isSafeMode false.
C27_SafeModeInvariant ==
  /\ [](errorHandler.errorCount > 5 => errorHandler.isSafeMode)
  /\ [][ExitOrResetStep =>
          /\ errorHandler'.errorCount = 0
          /\ ~errorHandler'.isSafeMode]_vars

C27_Witness ==
  /\ errorHandler.errorCount = 6
  /\ errorHandler.isSafeMode
  /\ \A i \in 1 .. Len(errorHandler.errorLog) :
       errorHandler.errorLog[i].context = "Test Runner"

\* C29: after a pointer-leave event the target bulge strength is 0 until the
\* next pointer-move event: while the last pointer event is a leave, the
\* target bulge strength is 0 and the hover flag is down.
C29_LeaveHolds ==
  lastPointerEvent.kind = "leave" =>
    /\ targetBulgeStrength = 0
    /\ ~isMouseOverEarth

\* C25: at the end of every frame of the loop in which the earth mesh
\* exists, the resolution of its geometry is lodManager.currentLOD and no
\* geometry update is requested.
C25_GeometryFollowsLOD ==
  [][(LoopFrameStep /\ earthMesh' # 0) =>
       /\ groupChildren'[earthMesh'].geometry = lodManager'.currentLOD
       /\ ~lodManager'.needsGeometryUpdate]_vars

\* C28: the group holds at most one earth mesh, and earthMesh is that mesh.
C28_SingleEarthMesh ==
  /\ Len(groupChildren) <= 1
  /\ earthMesh = Len(groupChildren)

\* x lies between a and b, ends included.
Between(a, x, b) == (a <= x /\ x <= b) \/ (b <= x /\ x <= a)

\* C24: in every frame the delta-time lies in [0, 16 ms], each smoothed value
\* (the bulge strength, the three pointer coordinates) ends between the value
\* it had and its target, and the bulge strength stays within [0, 1].
C24_NoOvershoot ==
  /\ [](/\ bulgeStrength \in 0 .. 1000
        /\ lastTime <= now)
  /\ [][FrameStep =>
          /\ Between(bulgeStrength, bulgeStrength', targetBulgeStrength)
          /\ \A k \in 1 .. 3 : Between(mouse[k], mouse'[k], targetMouse[k])]_vars

C24_Witness ==
  /\ targetBulgeStrength = 0
  /\ bulgeStrength > 0
  /\ bulgeStrength < 100
  /\ performanceMonitor.frameCount = 3
  /\ mouse # << 0, 0, 0 >>
  /\ mouse # targetMouse

\* The L key among frames and camera moves.
NextManualLOD_Spec ==
  \/ Startup
  \/ \E ok \in BOOLEAN : AnimateFrame(MaxWindowFrames, 0, ok)
  \/ \E d \in Distances : Zoom(d)
  \/ KeyL

SpecManualLOD == Init /\ [][NextManualLOD_Spec]_vars

\* C22: after the L key, the next geometry regeneration builds the mesh at
\* the resolution the key selected, whatever the camera distance: a frame of
\* the loop that finds the update requested by the key ends with the geometry
\* at the currentLOD the key left.
C22_ManualLOD ==
  [][(LoopFrameStep /\ lodManager.needsGeometryUpdate /\ earthMesh # 0) =>
       /\ groupChildren'[earthMesh'].geometry = lodManager.currentLOD
       /\ lodManager'.currentLOD = lodManager.currentLOD]_vars

\* The keys that write a uniform, and the reset key.
NextKeys ==
  \/ Startup
  \/ \E key \in VisualKeys : KeyDown(key)
  \/ KeyR

SpecKeys == Init /\ [][NextKeys]_vars

\* A step in which resetToEnhancedDefaults ran, seen by its LOD reset.
ResetStep ==
  /\ pc = "rendering"
  /\ lodManager' # lodManager
  /\ lodManager'.currentLOD = 300
  /\ lodManager'.needsGeometryUpdate

\* C23: after resetToEnhancedDefaults the uniforms the keys can change
\* (uTerrainDiversity, uTerrainAnimation, uBrightness, uContrast) have the
\* values of the mesh creation, currentLOD is 300 with a geometry update
\* requested, and the terrain cache is empty.
C23_ResetRestoresDefaults ==
  [][ResetStep =>
       LET u == groupChildren'[earthMesh'].material.uniforms IN
       /\ u.uTerrainDiversity = EnhancedUniforms.uTerrainDiversity
       /\ u.uTerrainAnimation = EnhancedUniforms.uTerrainAnimation
       /\ u.uBrightness = EnhancedUniforms.uBrightness
       /\ u.uContrast = EnhancedUniforms.uContrast
       /\ terrainCache' = << >>
       /\ cacheSize' = 0]_vars

\* A slow machine with the pointer moving, over the first FPS window: no key
\* is pressed, the clock in half seconds.
NextMitigation ==
  \/ Startup
  \/ \E ok \in BOOLEAN : AnimateFrame(MaxSlowFrames, 1000 * MaxPerfSeconds, ok)
  \/ Tick(500, 1000 * MaxPerfSeconds) /\ now + 500 <= 1000 * MaxPerfSeconds
  \/ \E p \in PointerPositions : MouseMove(p)
  \/ MouseLeave
  \/ HoverTimeout

SpecMitigation == Init /\ [][NextMitigation]_vars

\* C30: a mitigation persists: with no key pressed, a terrain-diversity
\* multiplier that the performance monitor has taken below its initial value
\* does not increase, whatever the pointer does.
C30_MitigationPersists ==
  [][TerrainDiversity < DiversityOne =>
       TerrainDiversity' <= TerrainDiversity]_vars

====
